---- MODULE Spec2Model ----
(***************************************************************************)
(* Model of youtube_watcher.py: main() walks a cursor-paginated playlist   *)
(* with the generator fetch_playlist_items, resolves every playlist item   *)
(* with the generator fetch_videos, hands one record per yielded video to  *)
(* producer.produce and calls producer.flush after the walk.               *)
(*                                                                         *)
(* JSON objects are functions from key strings to values (a missing key is *)
(* a key outside DOMAIN).  Decimal strings such as "12" are sequences of   *)
(* digits <<1, 2>>.  The source API is the environment: playlist and       *)
(* catalog hold what its two endpoints serve during the run, and any fetch *)
(* may fail instead.  `log' is the sequence of the run's observable calls: *)
(* HTTP requests with their answers, the two logging.info lines, produce   *)
(* calls and flush.                                                        *)
(*                                                                         *)
(* SpecWalks is a second specification: two generators made by two calls   *)
(* of fetch_playlist_items for the same playlist (walk and other), their   *)
(* next() calls interleaved in any order, against a source that answers    *)
(* every request.                                                          *)
(***************************************************************************)
EXTENDS Integers, Sequences, FiniteSets, TLC

VARIABLES playlist, catalog, pc, walk, other, res, video_item, video_id, video, log,
          error, exitStatus

vars == <<playlist, catalog, pc, walk, other, res, video_item, video_id, video, log,
          error, exitStatus>>

source == <<playlist, catalog>>

(***************************************************************************)
(* Bounds of the source the run is checked against.                        *)
(***************************************************************************)
MaxPages == 2
MaxItems == 2
MaxVideos == 2

(***************************************************************************)
(* Values.                                                                 *)
(***************************************************************************)
None == "<None>"
Empty == [k \in {} |-> 0]
PlaylistId == "PL"
VideoIds == {"a", "b"}
Tokens == {"X", "Y"}
Topic == "youtube_videos"
PlaylistEndpoint == "playlistItems"
VideosEndpoint == "videos"
StatKeys == {"viewCount", "likeCount", "commentCount"}

Get(d, k, default) == IF k \in DOMAIN d THEN d[k] ELSE default

RECURSIVE SeqsUpTo(_, _)
SeqsUpTo(S, n) ==
  IF n <= 0 THEN {<<>>}
  ELSE LET shorter == SeqsUpTo(S, n - 1)
       IN  shorter \cup {Append(s, x) : s \in {t \in shorter : Len(t) = n - 1}, x \in S}

(***************************************************************************)
(* The source API's records.                                               *)
(***************************************************************************)
PlaylistItem(v) == [id |-> "item", contentDetails |-> [videoId |-> v]]

StatString(k) ==
  CASE k = "viewCount" -> <<5>>
    [] k = "likeCount" -> <<1, 2>>
    [] OTHER -> <<3>>

Statistics(present) == [k \in present |-> StatString(k)]

VideoEntity(v, present) ==
  [id |-> v, snippet |-> [title |-> "T"], statistics |-> Statistics(present)]

WellFormedVideos(v) == {VideoEntity(v, present) : present \in SUBSET StatKeys}

NoStatisticsVideo(v) == [id |-> v, snippet |-> [title |-> "T"]]

MalformedVideos(v) ==
  { [snippet |-> [title |-> "T"], statistics |-> Statistics(StatKeys)],
    [id |-> v, snippet |-> Empty, statistics |-> Statistics(StatKeys)] }

Videos(v) == WellFormedVideos(v) \cup {NoStatisticsVideo(v)} \cup MalformedVideos(v)

PagePayload(items, token) ==
  IF token = None THEN [items |-> items]
  ELSE [items |-> items, nextPageToken |-> token]

(***************************************************************************)
(* The sources.  A playlist is a finite chain of pages: every page but the *)
(* last carries a token of its own, the cursor of the page after it.  The  *)
(* catalog gives, for a video id, the first page the videos endpoint       *)
(* answers for that id: the entities whose id it is.                       *)
(***************************************************************************)
RECURSIVE Chains(_, _, _)
Chains(pages, items, tokens) ==
  LET lists == SeqsUpTo({PlaylistItem(v) : v \in VideoIds}, items)
      last == {<<PagePayload(l, None)>> : l \in lists}
      more == UNION { UNION { {<<PagePayload(l, t)>> \o rest :
                                 rest \in Chains(pages - 1, items - Len(l), tokens \ {t})}
                              : t \in tokens }
                      : l \in lists }
  IN  IF pages <= 1 THEN last ELSE last \cup more

NoVideo == PagePayload(<<>>, None)

\* the plain answers: no video, one video, one video and a token, one without statistics
PlainEntries(v) ==
  { NoVideo,
    PagePayload(<<VideoEntity(v, StatKeys)>>, None),
    PagePayload(<<VideoEntity(v, StatKeys)>>, "X"),
    PagePayload(<<NoStatisticsVideo(v)>>, None) }

\* every answer within the bounds
AllEntries(v) ==
  {PagePayload(items, token) : items \in SeqsUpTo(Videos(v), MaxVideos), token \in {None, "X"}}

ItemIds(chain) ==
  UNION {{chain[i].items[j].contentDetails.videoId : j \in 1..Len(chain[i].items)} :
           i \in 1..Len(chain)}

\* every playlist within the bounds over plain catalogs
PipelineSources ==
  UNION { { [playlist |-> chain, catalog |-> c] :
              c \in {f \in [VideoIds -> UNION {PlainEntries(v) : v \in VideoIds}] :
                       \A v \in VideoIds :
                         /\ f[v] \in PlainEntries(v)
                         /\ v \notin ItemIds(chain) => f[v] = NoVideo} }
          : chain \in Chains(MaxPages, MaxItems, Tokens) }

\* the one-item playlist over every answer of the videos endpoint
EntitySources ==
  { [playlist |-> <<PagePayload(<<PlaylistItem("a")>>, None)>>,
     catalog |-> [v \in VideoIds |-> IF v = "a" THEN e ELSE NoVideo]] :
      e \in AllEntries("a") }

Sources == PipelineSources \cup EntitySources

(***************************************************************************)
(* Answers to one HTTP GET.  net = FALSE: no answer (connection failure).  *)
(* json = FALSE: the body is not JSON.  The code never reads httpOk.       *)
(***************************************************************************)
NetworkFailure == [net |-> FALSE, httpOk |-> FALSE, json |-> FALSE, payload |-> Empty]
NonJsonBody(ok) == [net |-> TRUE, httpOk |-> ok, json |-> FALSE, payload |-> Empty]
ErrorBody == [net |-> TRUE, httpOk |-> FALSE, json |-> TRUE, payload |-> [error |-> "e"]]
OkBody(payload) == [net |-> TRUE, httpOk |-> TRUE, json |-> TRUE, payload |-> payload]

FailedAnswers == {NetworkFailure, NonJsonBody(TRUE), NonJsonBody(FALSE), ErrorBody}

\* playlistItems?playlistId=PlaylistId&pageToken=cursor
PlaylistPage(chain, cursor) ==
  IF cursor = None THEN OkBody(chain[1])
  ELSE LET before == {i \in 1..Len(chain) - 1 : Get(chain[i], "nextPageToken", None) = cursor}
       IN  IF before = {} THEN ErrorBody
           ELSE OkBody(chain[(CHOOSE i \in before : TRUE) + 1])

\* playlistItems?playlistId=v&pageToken=cursor for a video id v
ForeignPlaylistAnswers(v, cursor) ==
  {OkBody(PagePayload(<<>>, None)), OkBody(PagePayload(<<PlaylistItem(v)>>, None))}
    \cup (IF cursor = "Y" THEN {} ELSE {OkBody(PagePayload(<<>>, "Y"))})

Answers(endpoint, id, cursor) ==
  FailedAnswers \cup
    (IF endpoint = VideosEndpoint THEN {OkBody(catalog[id])}
     ELSE IF id = PlaylistId THEN {PlaylistPage(playlist, cursor)}
     ELSE ForeignPlaylistAnswers(id, cursor))

(***************************************************************************)
(* fetch_playlist_items_page / fetch_videos_page: requests.get raises on a *)
(* connection failure, json.loads raises on a body that is not JSON.       *)
(***************************************************************************)
PageRaises(resp) ==
  IF ~resp.net THEN "ConnectionError"
  ELSE IF ~resp.json THEN "JSONDecodeError"
  ELSE None

\* yield from payload["items"]
ItemsRaises(resp) ==
  IF PageRaises(resp) # None THEN PageRaises(resp)
  ELSE IF "items" \notin DOMAIN resp.payload THEN "KeyError"
  ELSE None

(***************************************************************************)
(* Generator frames.  A frame is one activation of fetch_playlist_items or *)
(* fetch_videos that holds its payload; pos items of it have been yielded. *)
(* A generator is the stack of its nested frames, outermost first.         *)
(***************************************************************************)
Frame(fn, id, token, payload) ==
  [fn |-> fn, id |-> id, page_token |-> token, payload |-> payload, pos |-> 0]

Top(gen) == gen[Len(gen)]

HasItem(gen) == gen # <<>> /\ Top(gen).pos < Len(Top(gen).payload.items)

ExhaustedEarly(gen) == gen # <<>>

\* the yield from over the items of the frame's page has ended
Exhausted(gen) == gen # <<>> /\ Top(gen).pos = Len(Top(gen).payload.items)

\* next_page_token = payload.get("nextPageToken")
NextPageToken(payload) == Get(payload, "nextPageToken", None)

HasNextPageNever(payload) == FALSE

\* if next_page_token is not None
HasNextPage(payload) == NextPageToken(payload) # None

WalkCursorStale(gen) == IF gen = <<>> THEN None ELSE Top(gen).page_token

\* the page_token of the call: the default None from main, next_page_token when recursing
WalkCursor(gen) == IF gen = <<>> THEN None ELSE NextPageToken(Top(gen).payload)

YieldedItemReversed(gen) ==
  Top(gen).payload.items[Len(Top(gen).payload.items) - Top(gen).pos]

\* yield from payload["items"]: the items in the order of the list
YieldedItem(gen) == Top(gen).payload.items[Top(gen).pos + 1]

AdvanceStuck(gen) == gen

Advance(gen) == [gen EXCEPT ![Len(gen)].pos = @ + 1]

FetchEvent(by, endpoint, id, cursor, resp) ==
  [op |-> "fetch", by |-> by, endpoint |-> endpoint, id |-> id, cursor |-> cursor,
   resp |-> resp]

RaiseAndContinue(exc) ==
  /\ pc' = pc
  /\ error' = exc
  /\ exitStatus' = exitStatus

RaiseExitZero(exc) ==
  /\ pc' = "failed"
  /\ error' = exc
  /\ exitStatus' = 0

\* nothing catches the exception: it leaves main, the interpreter exits with status 1
Raise(exc) ==
  /\ pc' = "failed"
  /\ error' = exc
  /\ exitStatus' = 1

(***************************************************************************)
(* fetch_playlist_items as driven by main's outer for loop.                *)
(***************************************************************************)
\* first next(): fetch the first page; at the end of a page with a token: recurse
WalkFetch ==
  /\ pc = "main_next"
  /\ walk = <<>> \/ (Exhausted(walk) /\ HasNextPage(Top(walk).payload))
  /\ LET cursor == WalkCursor(walk)
     IN  \E resp \in Answers(PlaylistEndpoint, PlaylistId, cursor) :
           /\ log' = Append(log, FetchEvent("walk", PlaylistEndpoint, PlaylistId, cursor, resp))
           /\ IF ItemsRaises(resp) # None
              THEN /\ Raise(ItemsRaises(resp))
                   /\ UNCHANGED walk
              ELSE /\ walk' = Append(walk, Frame("fetch_playlist_items", PlaylistId,
                                                 cursor, resp.payload))
                   /\ UNCHANGED <<pc, error, exitStatus>>
  /\ UNCHANGED <<source, other, res, video_item, video_id, video>>

WalkYieldOnce ==
  /\ pc = "main_next"
  /\ HasItem(walk)
  /\ walk' = Advance(walk)
  /\ IF \E i \in 1..Len(log) : log[i].op = "GOT" /\ log[i].item = YieldedItem(walk)
     THEN UNCHANGED <<video_item, video_id, log, pc>>
     ELSE /\ video_item' = YieldedItem(walk)
          /\ video_id' = YieldedItem(walk).contentDetails.videoId
          /\ log' = Append(log, [op |-> "GOT", item |-> YieldedItem(walk)])
          /\ pc' = "resolve_next"
  /\ UNCHANGED <<source, other, res, video, error, exitStatus>>

\* the walk yields an item: the body of main's outer loop starts
WalkYield ==
  /\ pc = "main_next"
  /\ HasItem(walk)
  /\ video_item' = YieldedItem(walk)
  /\ video_id' = YieldedItem(walk).contentDetails.videoId
  /\ walk' = Advance(walk)
  /\ log' = Append(log, [op |-> "GOT", item |-> YieldedItem(walk)])
  /\ pc' = "resolve_next"
  /\ UNCHANGED <<source, other, res, video, error, exitStatus>>

\* the last page is served: every frame returns, the outer loop ends
WalkReturn ==
  /\ pc = "main_next"
  /\ Exhausted(walk)
  /\ ~HasNextPage(Top(walk).payload)
  /\ walk' = <<>>
  /\ pc' = "flush"
  /\ UNCHANGED <<source, other, res, video_item, video_id, video, log, error, exitStatus>>

(***************************************************************************)
(* fetch_videos as driven by main's inner for loop.                        *)
(***************************************************************************)
ResFetchSkipping ==
  /\ pc = "resolve_next"
  /\ res = <<>>
  /\ \E resp \in Answers(VideosEndpoint, video_id, None) :
       /\ log' = Append(log, FetchEvent("resolver", VideosEndpoint, video_id, None, resp))
       /\ IF ItemsRaises(resp) # None
          THEN /\ pc' = "main_next"
               /\ UNCHANGED <<res, error, exitStatus>>
          ELSE /\ res' = <<Frame("fetch_videos", video_id, None, resp.payload)>>
               /\ UNCHANGED <<pc, error, exitStatus>>
  /\ UNCHANGED <<source, other, walk, video_item, video_id, video>>

\* first next(): fetch_videos_page(video_id)
ResFetch ==
  /\ pc = "resolve_next"
  /\ res = <<>>
  /\ \E resp \in Answers(VideosEndpoint, video_id, None) :
       /\ log' = Append(log, FetchEvent("resolver", VideosEndpoint, video_id, None, resp))
       /\ IF ItemsRaises(resp) # None
          THEN /\ Raise(ItemsRaises(resp))
               /\ UNCHANGED res
          ELSE /\ res' = <<Frame("fetch_videos", video_id, None, resp.payload)>>
               /\ UNCHANGED <<pc, error, exitStatus>>
  /\ UNCHANGED <<source, other, walk, video_item, video_id, video>>

\* at the end of a page with a token: fetch_playlist_items(key, video_id, token)
ResContinue ==
  /\ pc = "resolve_next"
  /\ Exhausted(res)
  /\ HasNextPage(Top(res).payload)
  /\ LET cursor == NextPageToken(Top(res).payload)
         id == Top(res).id
     IN  \E resp \in Answers(PlaylistEndpoint, id, cursor) :
           /\ log' = Append(log, FetchEvent("resolver", PlaylistEndpoint, id, cursor, resp))
           /\ IF ItemsRaises(resp) # None
              THEN /\ Raise(ItemsRaises(resp))
                   /\ UNCHANGED res
              ELSE /\ res' = Append(res, Frame("fetch_playlist_items", id, cursor,
                                               resp.payload))
                   /\ UNCHANGED <<pc, error, exitStatus>>
  /\ UNCHANGED <<source, other, walk, video_item, video_id, video>>

ResYield ==
  /\ pc = "resolve_next"
  /\ HasItem(res)
  /\ video' = YieldedItem(res)
  /\ res' = Advance(res)
  /\ pc' = "publish"
  /\ UNCHANGED <<source, other, walk, video_item, video_id, log, error, exitStatus>>

ResReturn ==
  /\ pc = "resolve_next"
  /\ Exhausted(res)
  /\ ~HasNextPage(Top(res).payload)
  /\ res' = <<>>
  /\ pc' = "main_next"
  /\ UNCHANGED <<source, other, walk, video_item, video_id, video, log, error, exitStatus>>

(***************************************************************************)
(* The body of main's inner loop.                                          *)
(***************************************************************************)
RECURSIVE ParseInt(_)
ParseInt(digits) ==
  IF digits = <<>> THEN 0
  ELSE 10 * ParseInt(SubSeq(digits, 1, Len(digits) - 1)) + digits[Len(digits)]

\* int(video["statistics"].get(key, 0))
StatValue(statistics, key) ==
  IF key \in DOMAIN statistics THEN ParseInt(statistics[key]) ELSE 0

\* the subscripts of summarise_video and of the value dict raise KeyError
VideoRaises(v) ==
  IF "id" \notin DOMAIN v THEN "KeyError"
  ELSE IF "snippet" \notin DOMAIN v THEN "KeyError"
  ELSE IF "title" \notin DOMAIN v.snippet THEN "KeyError"
  ELSE IF "statistics" \notin DOMAIN v THEN "KeyError"
  ELSE None

summarise_video(v) ==
  [video_id |-> v.id,
   title |-> v.snippet.title,
   views |-> StatValue(v.statistics, "viewCount"),
   likes |-> StatValue(v.statistics, "likeCount"),
   comments |-> StatValue(v.statistics, "commentCount")]

RecordValueCopied(v) ==
  [TITLE |-> v.snippet.title,
   VIEWS |-> StatValue(v.statistics, "viewCount"),
   LIKES |-> StatValue(v.statistics, "viewCount"),
   COMMENTS |-> StatValue(v.statistics, "viewCount")]

\* the value dict of the produce call
RecordValue(v) ==
  [TITLE |-> v.snippet.title,
   VIEWS |-> StatValue(v.statistics, "viewCount"),
   LIKES |-> StatValue(v.statistics, "likeCount"),
   COMMENTS |-> StatValue(v.statistics, "commentCount")]

RecordKeyTitle(item_video_id, v) == v.snippet.title

\* key=video_id, the videoId of the playlist item being resolved
RecordKey(item_video_id, v) == item_video_id

ProduceEvent(item_video_id, v) ==
  [op |-> "produce", topic |-> Topic, key |-> RecordKey(item_video_id, v),
   value |-> RecordValue(v)]

PublishUnlogged ==
  /\ pc = "publish"
  /\ IF \/ "snippet" \notin DOMAIN video
        \/ "title" \notin DOMAIN video.snippet
        \/ "statistics" \notin DOMAIN video
     THEN /\ Raise("KeyError")
          /\ UNCHANGED log
     ELSE /\ log' = Append(log, [op |-> "produce", topic |-> Topic, key |-> video_id,
                                  value |-> RecordValue(video)])
          /\ pc' = "resolve_next"
          /\ UNCHANGED <<error, exitStatus>>
  /\ UNCHANGED <<source, other, walk, res, video_item, video_id, video>>

\* logging.info(..., summarise_video(video)), then producer.produce(...)
Publish ==
  /\ pc = "publish"
  /\ IF VideoRaises(video) # None
     THEN /\ Raise(VideoRaises(video))
          /\ UNCHANGED log
     ELSE /\ log' = log \o << [op |-> "Got video", summary |-> summarise_video(video)],
                              ProduceEvent(video_id, video) >>
          /\ pc' = "resolve_next"
          /\ UNCHANGED <<error, exitStatus>>
  /\ UNCHANGED <<source, other, walk, res, video_item, video_id, video>>

FlushSkipped ==
  /\ pc = "flush"
  /\ pc' = "done"
  /\ exitStatus' = 0
  /\ UNCHANGED <<source, other, walk, res, video_item, video_id, video, log, error>>

DeliveryErrors == {None, "KafkaError"}

on_deliveryRaising(err, record) == err

\* def on_delivery(err, record): pass -- what the callback raises: nothing
on_delivery(err, record) == None

\* the records handed to the producer, in the order of the produce calls
Queued == SelectSeq(log, LAMBDA e : e.op = "produce")

FlushReturnsCount ==
  /\ pc = "flush"
  /\ \E errs \in [1..Len(Queued) -> DeliveryErrors] :
       log' = Append(log, [op |-> "flush", delivery |-> errs])
  /\ pc' = "done"
  /\ exitStatus' = Len(Queued)
  /\ UNCHANGED <<source, other, walk, res, video_item, video_id, video, error>>

\* producer.flush() serves the delivery callbacks of the queued records (nothing polls
\* the producer before), then main returns and sys.exit(None) ends the process
Flush ==
  /\ pc = "flush"
  /\ \E errs \in [1..Len(Queued) -> DeliveryErrors] :
       LET raised == {on_delivery(errs[i], Queued[i]) : i \in 1..Len(Queued)} \ {None}
       IN  /\ log' = Append(log, [op |-> "flush", delivery |-> errs])
           /\ IF raised = {}
              THEN /\ pc' = "done"
                   /\ exitStatus' = 0
                   /\ UNCHANGED error
              ELSE Raise(CHOOSE exc \in raised : TRUE)
  /\ UNCHANGED <<source, other, walk, res, video_item, video_id, video>>

Init ==
  /\ \E s \in Sources : playlist = s.playlist /\ catalog = s.catalog
  /\ pc = "main_next"
  /\ walk = <<>>
  /\ other = <<>>
  /\ res = <<>>
  /\ video_item = Empty
  /\ video_id = None
  /\ video = Empty
  /\ log = <<>>
  /\ error = None
  /\ exitStatus = -1

Next ==
  \/ WalkFetch
  \/ WalkYield
  \/ WalkReturn
  \/ ResFetch
  \/ ResContinue
  \/ ResYield
  \/ ResReturn
  \/ Publish
  \/ Flush

Spec == Init /\ [][Next]_vars

\* one sequential process: it keeps executing until main returns or raises
FairSpec == Spec /\ WF_vars(Next)

(***************************************************************************)
(* Two independent walks of the same playlist.                             *)
(***************************************************************************)
Walkers == {"walk", "other"}

Gen(w) == IF w = "walk" THEN walk ELSE other

Peer(w) == IF w = "walk" THEN other ELSE walk

SetGen(w, gen) ==
  IF w = "walk" THEN walk' = gen /\ UNCHANGED other
  ELSE other' = gen /\ UNCHANGED walk

\* StopIteration or an exception has left the generator
Ended(w) == \E i \in 1..Len(log) : log[i].op \in {"return", "raise"} /\ log[i].by = w

TwinCursorShared(own, peer) ==
  IF own # <<>> THEN NextPageToken(Top(own).payload)
  ELSE IF peer # <<>> THEN Top(peer).page_token
  ELSE None

\* page_token is a parameter and payload a local of the generator's own frames
TwinCursor(own, peer) == WalkCursor(own)

IterFetch ==
  \E w \in Walkers :
    /\ ~Ended(w)
    /\ Gen(w) = <<>> \/ (Exhausted(Gen(w)) /\ HasNextPage(Top(Gen(w)).payload))
    /\ LET cursor == TwinCursor(Gen(w), Peer(w))
           resp == PlaylistPage(playlist, cursor)
           fetch == FetchEvent(w, PlaylistEndpoint, PlaylistId, cursor, resp)
       IN  IF ItemsRaises(resp) # None
           THEN /\ log' = log \o <<fetch, [op |-> "raise", by |-> w]>>
                /\ SetGen(w, <<>>)
           ELSE /\ log' = Append(log, fetch)
                /\ SetGen(w, Append(Gen(w), Frame("fetch_playlist_items", PlaylistId,
                                                  cursor, resp.payload)))
    /\ UNCHANGED <<source, pc, res, video_item, video_id, video, error, exitStatus>>

IterYield ==
  \E w \in Walkers :
    /\ HasItem(Gen(w))
    /\ log' = Append(log, [op |-> "yield", by |-> w, item |-> YieldedItem(Gen(w))])
    /\ SetGen(w, Advance(Gen(w)))
    /\ UNCHANGED <<source, pc, res, video_item, video_id, video, error, exitStatus>>

IterReturn ==
  \E w \in Walkers :
    /\ Exhausted(Gen(w))
    /\ ~HasNextPage(Top(Gen(w)).payload)
    /\ log' = Append(log, [op |-> "return", by |-> w])
    /\ SetGen(w, <<>>)
    /\ UNCHANGED <<source, pc, res, video_item, video_id, video, error, exitStatus>>

\* the playlists of the bounds, their page tokens named in order
WalkChains ==
  {c \in Chains(MaxPages, MaxItems, Tokens) : Get(c[1], "nextPageToken", None) # "Y"}

InitWalks ==
  /\ playlist \in WalkChains
  /\ catalog = [v \in VideoIds |-> NoVideo]
  /\ pc = "iterate"
  /\ walk = <<>>
  /\ other = <<>>
  /\ res = <<>>
  /\ video_item = Empty
  /\ video_id = None
  /\ video = Empty
  /\ log = <<>>
  /\ error = None
  /\ exitStatus = -1

NextWalks ==
  \/ IterFetch
  \/ IterYield
  \/ IterReturn

SpecWalks == InitWalks /\ [][NextWalks]_vars

(***************************************************************************)
(* What the log shows.                                                     *)
(***************************************************************************)
Last(s) == s[Len(s)]

Positions(op) == {i \in 1..Len(log) : log[i].op = op}

IsPrefix(s, t) == Len(s) <= Len(t) /\ SubSeq(t, 1, Len(s)) = s

RECURSIVE Flatten(_)
Flatten(pages) == IF pages = <<>> THEN <<>> ELSE Head(pages).items \o Flatten(Tail(pages))

FailedFetch(resp) == ~resp.net \/ ~resp.json \/ "items" \notin DOMAIN resp.payload

HttpErrorOrNonJson(resp) == resp.net /\ (~resp.httpOk \/ ~resp.json)

HasToken(resp) == "nextPageToken" \in DOMAIN resp.payload

\* the fetches made by main's playlist walk, and by the resolver
WalkFetches == SelectSeq(log, LAMBDA e : e.op = "fetch" /\ e.by = "walk")
ResolverFetches == SelectSeq(log, LAMBDA e : e.op = "fetch" /\ e.by = "resolver")

\* the pages the walk has received
WalkPages ==
  LET good == SelectSeq(WalkFetches, LAMBDA e : ~FailedFetch(e.resp))
  IN  [i \in 1..Len(good) |-> good[i].resp.payload]

\* the items the walk has yielded to main
Yielded ==
  LET got == SelectSeq(log, LAMBDA e : e.op = "GOT")
  IN  [i \in 1..Len(got) |-> got[i].item]

WalkFinished == pc \in {"flush", "done"}

(***************************************************************************)
(* C1: in the playlist walk, a page with a nextPageToken is followed by    *)
(* the fetch of the next page before the walk completes, also when its     *)
(* items list is empty; a page without one is the last page the walk       *)
(* fetches, and once its items are served the walk can only end.           *)
(***************************************************************************)
C1_TokenDecidesContinuation ==
  /\ \A i \in 1..Len(WalkFetches) :
       ~FailedFetch(WalkFetches[i].resp) =>
          /\ (HasToken(WalkFetches[i].resp) /\ WalkFinished) => i < Len(WalkFetches)
          /\ ~HasToken(WalkFetches[i].resp) => i = Len(WalkFetches)
  /\ (pc = "main_next" /\ walk # <<>> /\ ~HasItem(walk)
        /\ "nextPageToken" \notin DOMAIN Top(walk).payload)
       => (ENABLED WalkReturn /\ ~ENABLED WalkFetch)

C1_EmptyPageWithTokenContinued ==
  /\ pc = "done"
  /\ Len(WalkFetches) = 2
  /\ HasToken(WalkFetches[1].resp)
  /\ WalkFetches[1].resp.payload.items = <<>>
  /\ ~HasToken(WalkFetches[2].resp)

(***************************************************************************)
(* C2: the walk's first fetch carries no cursor; every later fetch of the  *)
(* walk asks the playlist endpoint for the same playlist with the          *)
(* nextPageToken of the page before it as cursor; in a completed run every *)
(* item of every page was resolved (a videos fetch for its videoId) and,   *)
(* where the videos endpoint has a video for it, produced.                 *)
(***************************************************************************)
C2_CursorIsPreviousToken ==
  /\ \A i \in 1..Len(WalkFetches) :
       /\ WalkFetches[i].endpoint = PlaylistEndpoint
       /\ WalkFetches[i].id = PlaylistId
       /\ i = 1 => WalkFetches[i].cursor = None
       /\ i > 1 => /\ HasToken(WalkFetches[i - 1].resp)
                   /\ WalkFetches[i].cursor = WalkFetches[i - 1].resp.payload.nextPageToken
  /\ pc = "done" =>
       \A p \in 1..Len(WalkPages) : \A j \in 1..Len(WalkPages[p].items) :
         LET v == WalkPages[p].items[j].contentDetails.videoId
         IN  /\ \E k \in Positions("fetch") :
                  log[k].endpoint = VideosEndpoint /\ log[k].id = v
             /\ catalog[v].items # <<>> =>
                  \E k \in Positions("produce") : log[k].key = v

C2_TwoPagesResolved ==
  /\ pc = "done"
  /\ Len(WalkFetches) = 2
  /\ WalkFetches[2].cursor = "X"
  /\ WalkPages[1].items # <<>>
  /\ WalkPages[2].items # <<>>
  /\ Cardinality(Positions("produce")) >= 2

(***************************************************************************)
(* C3: the items the walk yields are, in order, the items of the pages of  *)
(* the playlist in cursor order: always a prefix of them, and all of them  *)
(* once the walk is fully consumed.                                        *)
(***************************************************************************)
C3_YieldsConcatenation ==
  /\ IsPrefix(Yielded, Flatten(WalkPages))
  /\ IsPrefix(WalkPages, playlist)
  /\ WalkFinished => Yielded = Flatten(playlist)

C3_TwoPagesYielded ==
  /\ pc = "done"
  /\ Len(playlist) = 2
  /\ Len(playlist[1].items) = 2
  /\ playlist[1].items[1] # playlist[1].items[2]
  /\ Len(Yielded) = 2

(***************************************************************************)
(* C4: every fetch the resolver makes goes to the videos endpoint for the  *)
(* video id being resolved, a continuation with the token of the detail    *)
(* page before it, and every record it yields is a video of that endpoint, *)
(* never a playlist item.                                                  *)
(***************************************************************************)
\* the video id main was resolving when it made the call at position i of the log
ResolvingAt(i) ==
  LET got == {j \in 1..i - 1 : log[j].op = "GOT"}
  IN  log[CHOOSE j \in got : \A k \in got : k <= j].item.contentDetails.videoId

C4_ResolverPaginatesVideos ==
  /\ \A i \in Positions("fetch") :
       log[i].by = "resolver" =>
         /\ log[i].endpoint = VideosEndpoint
         /\ log[i].id = ResolvingAt(i)
         /\ log[i].cursor # None =>
              /\ log[i - 1].op = "fetch" /\ log[i - 1].by = "resolver"
              /\ log[i - 1].endpoint = VideosEndpoint
              /\ HasToken(log[i - 1].resp)
              /\ log[i - 1].resp.payload.nextPageToken = log[i].cursor
  /\ pc = "publish" => video \in Videos(video_id)

C6_FlushOnceAtEnd ==
  /\ \A i \in Positions("flush") : i = Len(log) /\ pc = "done"
  /\ pc = "done" => Cardinality(Positions("flush")) = 1

C6_FlushedAfterProduce ==
  /\ pc = "done"
  /\ Positions("produce") # {}
  /\ Len(WalkFetches) = 2
  /\ Last(log).op = "flush"

C8_FailedFetchIsFatal ==
  \A i \in Positions("fetch") :
    FailedFetch(log[i].resp) =>
      /\ i = Len(log)
      /\ pc = "failed"
      /\ exitStatus > 0

C8_DetailFetchFailed ==
  /\ pc = "failed"
  /\ Last(log).op = "fetch"
  /\ Last(log).by = "resolver"
  /\ ~Last(log).resp.net
  /\ Len(ResolverFetches) >= 2

(***************************************************************************)
(* C9: a video with an id, a title and a statistics object is published,   *)
(* whichever of the three counts are missing: VIEWS, LIKES and COMMENTS    *)
(* are the integers the present counts spell and 0 for the missing ones,   *)
(* and no error is raised.                                                 *)
(***************************************************************************)
ExpectedCount(statistics, key) ==
  IF key \notin DOMAIN statistics THEN 0
  ELSE CASE statistics[key] = <<5>> -> 5
         [] statistics[key] = <<1, 2>> -> 12
         [] statistics[key] = <<3>> -> 3

HasIdAndTitle(v) ==
  /\ {"id", "snippet"} \subseteq DOMAIN v
  /\ "title" \in DOMAIN v.snippet

C9_MissingCountsAreZero ==
  [][(pc = "publish" /\ HasIdAndTitle(video) /\ "statistics" \in DOMAIN video) =>
       /\ pc' = "resolve_next"
       /\ error' = None
       /\ Len(log') = Len(log) + 2
       /\ Last(log').op = "produce"
       /\ Last(log').value =
            [TITLE |-> video.snippet.title,
             VIEWS |-> ExpectedCount(video.statistics, "viewCount"),
             LIKES |-> ExpectedCount(video.statistics, "likeCount"),
             COMMENTS |-> ExpectedCount(video.statistics, "commentCount")]]_vars

C9_PublishedWithMissingCounts ==
  /\ log # <<>>
  /\ Last(log).op = "produce"
  /\ pc = "resolve_next"
  /\ DOMAIN video.statistics = {"likeCount"}
  /\ Last(log).value = [TITLE |-> "T", VIEWS |-> 0, LIKES |-> 12, COMMENTS |-> 0]

(***************************************************************************)
(* C10: a video with an id and a title but no statistics object is         *)
(* published with VIEWS = LIKES = COMMENTS = 0 and the run goes on.        *)
(***************************************************************************)
C10_NoStatisticsIsZero ==
  [][(pc = "publish" /\ HasIdAndTitle(video) /\ "statistics" \notin DOMAIN video) =>
       /\ pc' = "resolve_next"
       /\ Last(log').op = "produce"
       /\ Last(log').value =
            [TITLE |-> video.snippet.title, VIEWS |-> 0, LIKES |-> 0, COMMENTS |-> 0]]_vars

(***************************************************************************)
(* C11: a record yielded by the resolver that lacks its id or its title is *)
(* never published: the run fails with an error at that record, before     *)
(* any produce call for it.                                                *)
(***************************************************************************)
C11_RequiredFieldMissingFails ==
  [][(pc = "publish" /\ ~HasIdAndTitle(video)) =>
       /\ pc' = "failed"
       /\ error' # None
       /\ exitStatus' > 0
       /\ log' = log]_vars

C11_FailedOnVideoWithoutId ==
  /\ pc = "failed"
  /\ error = "KeyError"
  /\ Last(log).op = "fetch"
  /\ ~FailedFetch(Last(log).resp)
  /\ "snippet" \in DOMAIN video
  /\ "id" \notin DOMAIN video

(***************************************************************************)
(* C12: every record handed to the producer is the projection of a video   *)
(* returned by a successful videos fetch made earlier in the run, after    *)
(* main received the playlist item being processed and for that item's     *)
(* videoId: the k-th record produced for the item is the k-th video of     *)
(* that answer.                                                            *)
(***************************************************************************)
ExpectedValue(e) ==
  [TITLE |-> e.snippet.title,
   VIEWS |-> ExpectedCount(e.statistics, "viewCount"),
   LIKES |-> ExpectedCount(e.statistics, "likeCount"),
   COMMENTS |-> ExpectedCount(e.statistics, "commentCount")]

\* the position in the log of the GOT line of the item main was processing at position i
GotBefore(i) ==
  LET got == {j \in 1..i - 1 : log[j].op = "GOT"}
  IN  CHOOSE j \in got : \A k \in got : k <= j

C12_ProducedFromFetchedVideo ==
  \A i \in Positions("produce") :
    /\ \E j \in 1..i - 1 : log[j].op = "GOT"
    /\ LET g == GotBefore(i)
           v == log[g].item.contentDetails.videoId
           k == Cardinality({n \in g..i : log[n].op = "produce"})
       IN  \E j \in g + 1..i - 1 :
             /\ log[j].op = "fetch"
             /\ log[j].endpoint = VideosEndpoint
             /\ log[j].id = v
             /\ ~FailedFetch(log[j].resp)
             /\ k <= Len(log[j].resp.payload.items)
             /\ HasIdAndTitle(log[j].resp.payload.items[k])
             /\ "statistics" \in DOMAIN log[j].resp.payload.items[k]
             /\ log[i].key = log[j].resp.payload.items[k].id
             /\ log[i].value = ExpectedValue(log[j].resp.payload.items[k])

C12_SecondVideoOfAnswerProduced ==
  /\ Cardinality(Positions("produce")) = 2
  /\ Cardinality(Positions("GOT")) = 1
  /\ Last(log).op = "produce"
  /\ Last(log).value.VIEWS # log[Len(log) - 2].value.VIEWS

(***************************************************************************)
(* C13: the records handed to the producer are at every moment, and so     *)
(* when the run aborts, a prefix of the records of the run without         *)
(* failing fetches: the videos of the items in playlist order, up to the   *)
(* first one that cannot be published.                                     *)
(***************************************************************************)
Produced ==
  LET p == SelectSeq(log, LAMBDA e : e.op = "produce")
  IN  [i \in 1..Len(p) |-> [topic |-> p[i].topic, key |-> p[i].key, value |-> p[i].value]]

Publishable(e) == HasIdAndTitle(e) /\ "statistics" \in DOMAIN e

RECURSIVE PublishablePrefix(_)
PublishablePrefix(es) ==
  IF es = <<>> \/ ~Publishable(Head(es)) THEN <<>>
  ELSE <<Head(es)>> \o PublishablePrefix(Tail(es))

RECURSIVE ResolvedVideos(_)
ResolvedVideos(items) ==
  IF items = <<>> THEN <<>>
  ELSE catalog[Head(items).contentDetails.videoId].items \o ResolvedVideos(Tail(items))

AllVideos == ResolvedVideos(Flatten(playlist))

ExpectedRecords ==
  LET es == PublishablePrefix(AllVideos)
  IN  [i \in 1..Len(es) |->
         [topic |-> "youtube_videos", key |-> es[i].id, value |-> ExpectedValue(es[i])]]

C13_ProducedIsPrefix == IsPrefix(Produced, ExpectedRecords)

C13_AbortedAfterFirstRecord ==
  /\ pc = "failed"
  /\ Len(Produced) = 1
  /\ Len(ExpectedRecords) = 2
  /\ ExpectedRecords[1] # ExpectedRecords[2]
  /\ FailedFetch(Last(log).resp)

(***************************************************************************)
(* C14: the calls are made one after the other in playlist order: when     *)
(* main receives the next item, fetches the next playlist page or ends     *)
(* the walk, the item before has had its videos fetch answered and every   *)
(* video of that answer produced, and a playlist page is fetched only      *)
(* when every item of the pages before it has been received.               *)
(***************************************************************************)
ItemResolved(g, i) ==
  \E j \in g + 1..i - 1 :
    /\ log[j].op = "fetch"
    /\ log[j].endpoint = VideosEndpoint
    /\ log[j].id = log[g].item.contentDetails.videoId
    /\ ~FailedFetch(log[j].resp)
    /\ Cardinality({n \in j..i : log[n].op = "produce"}) = Len(log[j].resp.payload.items)
    /\ Cardinality({n \in g..j : log[n].op = "produce"}) = 0

PagesBefore(i) ==
  LET good == SelectSeq(SubSeq(log, 1, i - 1),
                        LAMBDA e : e.op = "fetch" /\ e.by = "walk" /\ ~FailedFetch(e.resp))
  IN  [n \in 1..Len(good) |-> good[n].resp.payload]

C14_OneItemAtATime ==
  \A i \in 1..Len(log) :
    LET walkStep == \/ log[i].op \in {"GOT", "flush"}
                    \/ log[i].op = "fetch" /\ log[i].by = "walk"
        got == {j \in 1..i - 1 : log[j].op = "GOT"}
    IN  walkStep =>
          /\ got # {} => ItemResolved(GotBefore(i), i)
          /\ log[i].op = "GOT" =>
               /\ Cardinality(got) < Len(Flatten(PagesBefore(i)))
               /\ log[i].item = Flatten(PagesBefore(i))[Cardinality(got) + 1]
          /\ log[i].op # "GOT" => Cardinality(got) = Len(Flatten(PagesBefore(i)))

C14_SecondPageAfterFirstProduced ==
  /\ pc = "done"
  /\ Len(WalkFetches) = 2
  /\ \E i \in Positions("fetch") : \E j \in Positions("produce") : \E k \in Positions("produce") :
       log[i].by = "walk" /\ j < i /\ i < k

(***************************************************************************)
(* C15: whatever the delivery callbacks report, success or failure, for    *)
(* each produced record, the run is the same: flush is called once and     *)
(* returns, the process exits with status 0, the records produced are      *)
(* those of the source, each once, and no failed run has reached flush.    *)
(***************************************************************************)
C15_DeliveryOutcomeIgnored ==
  /\ pc = "done" =>
       /\ exitStatus = 0
       /\ error = None
       /\ Produced = ExpectedRecords
       /\ Cardinality(Positions("flush")) = 1
       /\ DOMAIN Last(log).delivery = 1..Len(Produced)
  /\ pc = "failed" => Positions("flush") = {}
  /\ pc = "flush" => ENABLED Flush

C15_DoneWithFailedDelivery ==
  /\ pc = "done"
  /\ Len(Produced) = 2
  /\ Last(log).delivery = <<"KafkaError", None>>

(***************************************************************************)
(* C16: two walks of the same playlist against the same answers yield the  *)
(* same items in the same order: each starts with a fetch without cursor,  *)
(* at every moment one walk's items are a prefix of the other's however    *)
(* their next() calls interleave, and two finished walks have yielded      *)
(* identical sequences.                                                    *)
(***************************************************************************)
YieldedBy(w) ==
  LET ys == SelectSeq(log, LAMBDA e : e.op = "yield" /\ e.by = w)
  IN  [i \in 1..Len(ys) |-> ys[i].item]

CursorsOf(w) ==
  LET fs == SelectSeq(log, LAMBDA e : e.op = "fetch" /\ e.by = w)
  IN  [i \in 1..Len(fs) |-> fs[i].cursor]

C16_WalksAgree ==
  /\ \A w \in Walkers : CursorsOf(w) # <<>> => CursorsOf(w)[1] = None
  /\ IsPrefix(YieldedBy("walk"), YieldedBy("other"))
       \/ IsPrefix(YieldedBy("other"), YieldedBy("walk"))
  /\ IsPrefix(CursorsOf("walk"), CursorsOf("other"))
       \/ IsPrefix(CursorsOf("other"), CursorsOf("walk"))
  /\ (Ended("walk") /\ Ended("other")) =>
       /\ YieldedBy("walk") = YieldedBy("other")
       /\ CursorsOf("walk") = CursorsOf("other")
       /\ \A i \in 1..Len(log) : log[i].op # "raise"

C16_SecondWalkStartedMidway ==
  /\ Ended("walk")
  /\ Ended("other")
  /\ Len(YieldedBy("walk")) = 2
  /\ YieldedBy("walk")[1] # YieldedBy("walk")[2]
  /\ Len(CursorsOf("other")) = 2
  /\ \E i \in 1..Len(log) : \E j \in 1..Len(log) :
       /\ i < j
       /\ log[i].op = "fetch" /\ log[i].by = "walk" /\ log[i].cursor # None
       /\ log[j].op = "fetch" /\ log[j].by = "other" /\ log[j].cursor = None

(***************************************************************************)
(* C17 as stated: a run whose fetches all succeed eventually completes     *)
(* with status 0, and a failed run has a non-zero status.                  *)
(***************************************************************************)
SomeFetchFailed == \E i \in Positions("fetch") : FailedFetch(log[i].resp)

Gots == SelectSeq(log, LAMBDA e : e.op = "GOT")

\* the produce calls made while main was processing its k-th item
ProducedFor(k) ==
  LET got == {i \in 1..Len(log) : log[i].op = "GOT" /\ Cardinality(Positions("GOT") \cap 1..i) = k}
      from == CHOOSE i \in got : TRUE
      upto == {i \in Positions("GOT") : i > from}
      to == IF upto = {} THEN Len(log) ELSE CHOOSE i \in upto : \A j \in upto : i <= j
  IN  SelectSeq(SubSeq(log, from, to), LAMBDA e : e.op = "produce")

C18_OneProducePerResolvedVideo ==
  pc = "done" =>
    /\ Len(Gots) = Len(Flatten(playlist))
    /\ \A k \in 1..Len(Gots) :
         LET item == Flatten(playlist)[k]
             entities == catalog[item.contentDetails.videoId].items
             calls == ProducedFor(k)
         IN  /\ Gots[k].item = item
             /\ Len(calls) = Len(entities)
             /\ \A n \in 1..Len(calls) :
                  /\ calls[n].topic = "youtube_videos"
                  /\ calls[n].key = item.contentDetails.videoId
                  /\ calls[n].value = ExpectedValue(entities[n])
    /\ Len(Produced) = Len(AllVideos)

C18_SameVideoProducedTwice ==
  /\ pc = "done"
  /\ Len(playlist) = 2
  /\ Len(Flatten(playlist)) = 2
  /\ Flatten(playlist)[1] = Flatten(playlist)[2]
  /\ Len(Produced) = 2
  /\ Produced[1] = Produced[2]

(***************************************************************************)
(* C19: during the playlist walk at most one page is held: the generator   *)
(* never has more than one live frame of fetch_playlist_items, each frame  *)
(* holding the page it fetched.                                            *)
(***************************************************************************)
C19_OnePageHeld == Len(walk) <= 1

====
